---- MODULE Spec2Model ----
(***************************************************************************)
(* Attendance verification and approval pipeline of the HR backend         *)
(* (backend/app/attendance_service.py, class AttendanceService).           *)
(*                                                                         *)
(* The class defines _perform_pre_checks, _perform_verification,           *)
(* _perform_validation and _create_attendance_record twice; Python keeps   *)
(* the later definition of each, so the methods modelled here are the ones *)
(* at lines 425-954.  mark_attendance_comprehensive (57-126) and           *)
(* approve_attendance (383-423) are defined once.                          *)
(*                                                                         *)
(* Requests are served by several workers that share one database, so the  *)
(* steps of two calls interleave at the database statements: a query is    *)
(* one step, the commit that follows it another.                           *)
(*                                                                         *)
(* The specifications:                                                     *)
(*   Spec          mark_attendance_comprehensive, as shipped               *)
(*   SpecApproval  approve_attendance and the reviewer's reject            *)
(*   SpecStages    the stage methods _perform_pre_checks and               *)
(*                 _create_attendance_record invoked one after the other   *)
(*   SpecChecks    one call of a single check (_perform_validation,        *)
(*                 _validate_gps_location, compare_faces, ...) on          *)
(*                 arguments drawn from bounded sets                       *)
(*   SpecWfh       mark_attendance_comprehensive while the WFH subsystem   *)
(*                 approves and withdraws requests                         *)
(*   SpecPayroll   PayrollService (backend/app/payroll_service.py):        *)
(*                 calculation, batches and approval of one month's payroll*)
(*   SpecLifecycle the record stage followed by approve_attendance: a      *)
(*                 record from its creation to its approval                *)
(***************************************************************************)
EXTENDS Integers, Sequences, FiniteSets, TLC

\* ------------------------------------------------------------------ bounds
MaxEmp        == 2   \* employee ids 1..MaxEmp are on file; MaxEmp + 1 is unknown
MaxInitRows   == 1   \* attendance rows already in the table at the start
MaxNow        == 7   \* the clock stops advancing at this slot
MaxBatches    == 1   \* payroll batches processed
NumReviewers  == 2   \* concurrent approve/reject callers
NumCallers    == 2   \* concurrent mark_attendance_comprehensive callers

\* Time is counted in slots; SlotsPerDay slots make a calendar day.
SlotsPerDay   == 4
StartNow      == 6   \* local wall clock at the start: day 1, third slot

EmployeeIds   == 1..MaxEmp
UnknownEmp    == MaxEmp + 1
Reviewers     == 1..NumReviewers
Callers       == 1..NumCallers
TzOffsets     == {-1, 0, 1}     \* local time minus UTC, in slots

\* Python's None and an optional value
None          == <<>>
Some(v)       == <<v>>

VARIABLES
  employees,   \* Employee table: id -> "active" | "inactive" (employee.user.is_active)
  wfh,         \* WFHRequest rows with status approved: set of <<employee_id, request_date>>
  store,       \* Attendance table: sequence of rows, row id = position
  now,         \* the server's local wall clock (datetime.now()), in slots
  tz,          \* the server's offset: local time = UTC + tz
  mpc, mcall, mres,        \* mark_attendance_comprehensive callers
  apc, acall, asnap, ares, \* approve/reject callers
  spc, scall, sres,        \* stage-method callers
  kpc, kcall, kres,        \* one call of a single check: position, arguments, result
  payroll,     \* Payroll table of one month: employee id -> row or None
  batches,     \* PayrollBatch table: sequence of rows
  pcall        \* the last call made to PayrollService and what it returned

vars == <<employees, wfh, store, now, tz, mpc, mcall, mres,
          apc, acall, asnap, ares, spc, scall, sres, kpc, kcall, kres,
          payroll, batches, pcall>>

envVars   == <<employees, wfh, tz>>
markVars  == <<mpc, mcall, mres>>
apprVars  == <<apc, acall, asnap, ares>>
stageVars == <<spc, scall, sres>>
checkVars == <<kpc, kcall, kres>>
payVars   == <<payroll, batches, pcall>>

\* ------------------------------------------------------------------ clock
\* datetime.utcnow()
UtcNow == now - tz
\* date.today(): the local calendar day
Today == now \div SlotsPerDay
\* datetime.combine(day, time.min)
DayStart(day) == day * SlotsPerDay
\* datetime.combine(day, time.max): 23:59:59.999999, after the day's last slot
\* and before the next day's first; a whole slot t has t < DayEnd(day) exactly
\* when t < (day + 1) * SlotsPerDay.
DayEnd(day) == (day + 1) * SlotsPerDay

NoResult == [none |-> TRUE]
NoCall   == [none |-> TRUE]

\* ------------------------------------------------------------------ rows
PreApprovalStatuses == {"late", "remote_unverified", "identity_unverified"}

Row(id, emp, date, status, req, mode, fraud) ==
  [id |-> id, employee_id |-> emp, date |-> date, status |-> status,
   requires_approval |-> req,
   approval_status |-> IF req THEN "pending" ELSE "auto_approved",
   approved_by |-> None, approved_at |-> None, approval_notes |-> None,
   work_mode |-> mode, is_fraud_suspected |-> fraud]

RowIds == 1..Len(store)

\* Rows of one employee whose date column falls on the given local day range
RowsOn(emp, day) ==
  {i \in RowIds : /\ store[i].employee_id = emp
                  /\ store[i].date >= DayStart(day)
                  /\ store[i].date < DayEnd(day)}

\* Rows the table may hold at the start: written on an earlier slot of the
\* local day or on the day before, one per employee and day.
InitDates == {StartNow - SlotsPerDay, StartNow - 1}
InitStatuses == {"present"} \cup PreApprovalStatuses
InitRow(id, emp, date, status) ==
  Row(id, emp, date, status, status \in PreApprovalStatuses, "office", FALSE)

RECURSIVE StoresOfLen(_)
StoresOfLen(n) ==
  IF n = 0 THEN {<<>>}
  ELSE {Append(s, InitRow(n, e, d, st)) :
          s \in StoresOfLen(n - 1), e \in EmployeeIds, d \in InitDates,
          st \in InitStatuses}

DistinctDays(s) ==
  \A i, j \in 1..Len(s) :
     (i # j /\ s[i].employee_id = s[j].employee_id)
        => s[i].date \div SlotsPerDay # s[j].date \div SlotsPerDay

InitStores ==
  {s \in UNION {StoresOfLen(n) : n \in 0..MaxInitRows} : DistinctDays(s)}

IdleMark   == /\ mpc = [p \in Callers |-> "idle"]
              /\ mcall = [p \in Callers |-> NoCall]
              /\ mres = [p \in Callers |-> NoResult]
IdleAppr   == /\ apc = [r \in Reviewers |-> "idle"]
              /\ acall = [r \in Reviewers |-> NoCall]
              /\ asnap = [r \in Reviewers |-> None]
              /\ ares = [r \in Reviewers |-> NoResult]
IdleStage  == /\ spc = [d \in Callers |-> "idle"]
              /\ scall = [d \in Callers |-> NoCall]
              /\ sres = [d \in Callers |-> NoResult]

IdleCheck  == kpc = "idle" /\ kcall = NoCall /\ kres = NoResult

IdlePay    == /\ payroll = [e \in EmployeeIds |-> None]
              /\ batches = <<>>
              /\ pcall = NoCall

\* The wall clock advances
Tick ==
  /\ now < MaxNow
  /\ now' = now + 1
  /\ UNCHANGED <<payVars, envVars, checkVars, store, markVars, apprVars, stageVars>>

\* ------------------------------------------------- approve_attendance
\* A remap that forgets the identity_unverified row of the table
ApprovedStatus_TwoRows(s) ==
  CASE s = "late"                -> "present_late"
    [] s = "remote_unverified"   -> "remote_approved"
    [] OTHER                     -> s

\* lines 400-405: the status of the approved version
ApprovedStatus(s) ==
  CASE s = "late"                -> "present_late"
    [] s = "remote_unverified"   -> "remote_approved"
    [] s = "identity_unverified" -> "present_approved"
    [] OTHER                     -> s

\* An approval that does not look at requires_approval
ApprovePending_Unguarded(row) == TRUE

\* line 390: the guard of the transition
ApprovePending(row) == row.requires_approval

ApproveNotFound   == [success |-> FALSE, error |-> "Attendance record not found"]
ApproveNotPending == [success |-> FALSE, error |-> "Attendance does not require approval"]
ApproveOk(s)      == [success |-> TRUE, message |-> "Attendance approved successfully",
                      new_status |-> s]

\* The unit of work writes the attributes whose value differs from the loaded
\* one; the others keep what the table holds.
Flushed(loaded, assigned, current) ==
  IF assigned # loaded THEN assigned ELSE current

\* lines 393-405 applied to the loaded row and flushed by the commit of 407
ApproveUpdate(current, loaded, approved_by, notes, at) ==
  [current EXCEPT
     !.requires_approval = Flushed(loaded.requires_approval, FALSE, @),
     !.approved_by       = Flushed(loaded.approved_by, Some(approved_by), @),
     !.approved_at       = Flushed(loaded.approved_at, Some(at), @),
     !.approval_notes    = Flushed(loaded.approval_notes, notes, @),
     !.status            = Flushed(loaded.status, ApprovedStatus(loaded.status), @)]

NotesValues == {None, Some("note")}

\* lines 386-391: the query and the two early returns
ApproveLoad(r, id, notes) ==
  /\ apc[r] = "idle"
  /\ acall' = [acall EXCEPT ![r] =
        [op |-> "approve", id |-> id, notes |-> notes,
         pending |-> id \in RowIds /\ store[id].requires_approval,
         before |-> IF id \in RowIds THEN store[id] ELSE None]]
  /\ IF id \notin RowIds
       THEN /\ apc' = [apc EXCEPT ![r] = "done"]
            /\ ares' = [ares EXCEPT ![r] = ApproveNotFound]
            /\ UNCHANGED asnap
       ELSE IF ~ApprovePending(store[id])
       THEN /\ apc' = [apc EXCEPT ![r] = "done"]
            /\ ares' = [ares EXCEPT ![r] = ApproveNotPending]
            /\ UNCHANGED asnap
       ELSE /\ apc' = [apc EXCEPT ![r] = "loaded"]
            /\ asnap' = [asnap EXCEPT ![r] = store[id]]
            /\ UNCHANGED ares
  /\ UNCHANGED <<payVars, envVars, checkVars, store, now, markVars, stageVars>>

\* lines 393-423: the assignments, the commit, the notification (which
\* create_notification never lets fail) and the success result
ApproveCommit(r) ==
  /\ apc[r] = "loaded"
  /\ LET loaded == asnap[r]
         id     == loaded.id
     IN /\ store' = [store EXCEPT ![id] =
                        ApproveUpdate(@, loaded, r, acall[r].notes, UtcNow)]
        /\ ares' = [ares EXCEPT ![r] = ApproveOk(ApprovedStatus(loaded.status))]
  /\ apc' = [apc EXCEPT ![r] = "done"]
  /\ UNCHANGED <<payVars, envVars, checkVars, now, acall, asnap, markVars, stageVars>>

approve_attendance(r) ==
  \/ \E id \in 1..(Len(store) + 1), notes \in NotesValues : ApproveLoad(r, id, notes)
  \/ ApproveCommit(r)

\* ------------------------------------------------- Reject (section 4.6)
RejectNotPending == [success |-> FALSE, errorKind |-> "NotPendingApproval"]
RejectOk         == [success |-> TRUE, status |-> "rejected"]

\* A single-row conditional update keyed by the current state
Reject(r, id, notes) ==
  /\ apc[r] = "idle"
  /\ id \in RowIds
  /\ acall' = [acall EXCEPT ![r] =
        [op |-> "reject", id |-> id, notes |-> notes,
         pending |-> store[id].requires_approval,
         before |-> store[id]]]
  /\ apc' = [apc EXCEPT ![r] = "done"]
  /\ IF store[id].requires_approval
       THEN /\ store' = [store EXCEPT ![id] =
                 [@ EXCEPT !.status = "rejected", !.requires_approval = FALSE,
                           !.approved_by = Some(r), !.approved_at = Some(UtcNow),
                           !.approval_notes = notes]]
            /\ ares' = [ares EXCEPT ![r] = RejectOk]
       ELSE /\ ares' = [ares EXCEPT ![r] = RejectNotPending]
            /\ UNCHANGED store
  /\ UNCHANGED <<payVars, envVars, checkVars, now, asnap, markVars, stageVars>>

reject_attendance(r) ==
  \E id \in RowIds, notes \in NotesValues : Reject(r, id, notes)

\* approve_attendance reads a row by its id and never its employee or date:
\* the rows it starts from differ in status alone (row i is employee i's row
\* of today).
ApprovalInitStores ==
  {s \in InitStores :
     \A i \in 1..Len(s) : s[i].employee_id = i /\ s[i].date = StartNow - 1}

InitApproval ==
  /\ employees = [e \in EmployeeIds |-> "active"]
  /\ wfh = {}
  /\ tz = 0
  /\ now = StartNow
  /\ store \in ApprovalInitStores
  /\ IdleMark /\ IdleAppr /\ IdleStage /\ IdlePay /\ IdleCheck

ApproveStep == \E r \in Reviewers : approve_attendance(r)
RejectStep  == \E r \in Reviewers : reject_attendance(r)

NextApproval == ApproveStep \/ RejectStep \/ Tick

SpecApproval == InitApproval /\ [][NextApproval]_vars

\* ------------------------------------------- mark_attendance_comprehensive
\* An exception raised inside a stage
Raise(kind, text) == [raised |-> kind, text |-> text]
IsRaise(x) == "raised" \in DOMAIN x

\* A stage's failure dict: the kind is the value of "error"
StageFailure(kind, message) ==
  [success |-> FALSE, error |-> kind, message |-> message, details |-> "details"]

\* lines 120-126: the handler of mark_attendance_comprehensive.  The value of
\* "error" is the text "System error: " + str(e); the kind is in "error_type".
SystemError(e) ==
  [success |-> FALSE,
   error |-> CASE e.raised = "NameError" ->
                    "System error: name 'fraud_indicators' is not defined"
               [] e.raised = "TypeError" ->
                    "System error: _create_attendance_record() missing 3 required positional arguments"
               [] OTHER -> "System error: database unavailable",
   error_type |-> "system_error"]

\* ---- Stage 1: _perform_pre_checks (lines 425-504)
\* _get_employee_shift, lines 960-966: the row of the Shift table named
\* Morning Shift, whoever the employee is, or None when there is no such row
get_employee_shift(employee, shift_table) ==
  IF "Morning Shift" \in shift_table THEN Some("Morning Shift") ELSE None

\* The same with the Shift table holding the Morning Shift row
GetEmployeeShift(emp) == get_employee_shift(emp, {"Morning Shift"})[1]

perform_pre_checks(employee_id) ==
  IF employee_id \notin DOMAIN employees
    THEN StageFailure("employee_not_found", "Employee profile not found")
  ELSE IF employees[employee_id] # "active"
    THEN StageFailure("employee_inactive", "Employee account is inactive")
  ELSE IF RowsOn(employee_id, Today) # {}
    THEN StageFailure("already_marked", "Attendance already marked for today")
  ELSE [success |-> TRUE, employee |-> employee_id,
        wfh_request |-> IF <<employee_id, Today>> \in wfh
                          THEN Some(<<employee_id, Today>>) ELSE None,
        assigned_shift |-> GetEmployeeShift(employee_id)]

\* ---- Stage 2: _perform_verification (lines 506-601)
\* Python truth value of an optional argument: None, 0 and "" are false
TruthyNum(v) == v # None /\ v[1] # 0
TruthyStr(v) == v # None /\ v[1] # ""

\* Coordinates are counted in 1/10000 of a degree.
OfficeLat == 174065   \* 17.4065
OfficeLon == 784772   \* 78.4772
MaxDistance == 100    \* metres

\* math.sqrt, rounded down: the largest r in lo..hi with r * r <= n
RECURSIVE IsqrtBetween(_, _, _)
IsqrtBetween(n, lo, hi) ==
  IF lo >= hi THEN lo
  ELSE LET mid == (lo + hi + 1) \div 2
       IN IF mid * mid <= n THEN IsqrtBetween(n, mid, hi)
          ELSE IsqrtBetween(n, lo, mid - 1)
Isqrt(n) == IsqrtBetween(n, 0, 40000)
Abs(x) == IF x < 0 THEN -x ELSE x

\* lines 968-981: the great-circle distance, in whole metres.  Near the
\* office one unit of latitude is 11.1 m and one unit of longitude 10.6 m;
\* points more than NearUnits units away on either axis are FarMetres away.
NearUnits == 20
FarMetres == 1000000
haversine_distance(lat1, lon1, lat2, lon2) ==
  LET dlat == Abs(lat2 - lat1)
      dlon == Abs(lon2 - lon1)
  IN IF dlat > NearUnits \/ dlon > NearUnits THEN FarMetres
     ELSE Isqrt((111 * dlat) * (111 * dlat) + (106 * dlon) * (106 * dlon)) \div 10

\* lines 656-693
validate_gps_location(latitude, longitude) ==
  IF ~TruthyNum(latitude) \/ ~TruthyNum(longitude)
    THEN StageFailure("location_required", "GPS location is required for office attendance")
  ELSE LET distance == haversine_distance(latitude[1], longitude[1], OfficeLat, OfficeLon)
       IN IF distance > MaxDistance
            THEN StageFailure("location_too_far", "You are too far away from office")
            ELSE [success |-> TRUE, distance |-> distance]

\* lines 603-654.  profile: the stored profile image or None; cmp: what
\* compare_faces returns, or the exception it raises.
verify_face_recognition(profile, cmp) ==
  IF profile = None
    THEN StageFailure("profile_image_missing",
                      "Profile image not found. Please upload your profile image first")
  ELSE IF IsRaise(cmp)
    THEN StageFailure("face_recognition_failed", "Face recognition failed")
  ELSE IF ~cmp.match
    THEN StageFailure("face_mismatch", "Face does not match profile image")
  ELSE [success |-> TRUE, confidence |-> cmp.confidence]

\* security_service.validate_attendance_security (section 4.4): repeated
\* attempts within five minutes are a hard block, the other indicators are
\* warnings.
validate_attendance_security(rapid_attempts, warnings) ==
  [security_passed |-> ~rapid_attempts,
   critical_issues |-> IF rapid_attempts THEN {"rapid_attempts"} ELSE {},
   warnings |-> warnings]

\* lines 592-601: the success return.  Its dict evaluates
\* len(fraud_indicators), a name bound neither in the method nor in the
\* module: the return raises NameError.
verification_return(verification_data, work_mode) ==
  Raise("NameError", "name 'fraud_indicators' is not defined")

\* The work mode taken to be office whatever the WFH table says
verification_work_mode_office(employee) == "office"

\* lines 555-561: the stage's own query of today's approved WFH request
verification_work_mode(employee) ==
  IF <<employee, Today>> \in wfh THEN "wfh" ELSE "office"

perform_verification(employee, photo, latitude, longitude, use_face, profile, cmp, rapid_attempts, warnings) ==
  IF ~TruthyStr(photo)
    THEN StageFailure("photo_required", "Photo is required for attendance verification")
  ELSE
  LET face == IF use_face THEN verify_face_recognition(profile, cmp)
              ELSE [success |-> TRUE, confidence |-> 0]
  IN IF ~face.success THEN face
  ELSE
  LET work_mode == verification_work_mode(employee)
      gps == IF work_mode = "office" THEN validate_gps_location(latitude, longitude)
             ELSE [success |-> TRUE, distance |-> None]
  IN IF ~gps.success THEN gps
  ELSE
  LET security == validate_attendance_security(rapid_attempts, warnings)
      vdata == [photo_captured |-> TRUE,
                face_recognition_used |-> use_face,
                face_match_confidence |-> face.confidence,
                gps_validated |-> work_mode = "office",
                location_distance |-> gps.distance,
                fraud_indicators |-> security.warnings]
  IN IF ~security.security_passed
       THEN StageFailure("security_validation_failed", "Security validation failed")
       ELSE verification_return(vdata, work_mode)

\* ---- Stage 3: _perform_validation, the check of lines 844-852 (the time
\* classification of lines 797-842 never fails)
validation_location(wfh_request, latitude, longitude) ==
  IF wfh_request = None /\ (~TruthyNum(latitude) \/ ~TruthyNum(longitude))
    THEN StageFailure("location_required_office",
                      "GPS location is required for office attendance")
    ELSE [success |-> TRUE]

\* ---- Stage 4 as called at lines 114-116: five positional arguments for a
\* method that requires eight (866-876); the call raises TypeError before
\* the body runs.
create_record_call(employee, assigned_shift, wfh_request, verification_result, validation_result) ==
  Raise("TypeError", "_create_attendance_record() missing 3 required positional arguments")

\* lines 94-126
mark_after_pre_checks(pre, photo, latitude, longitude, use_face, profile, cmp, rapid_attempts, warnings) ==
  LET verification_result ==
        perform_verification(pre.employee, photo, latitude, longitude, use_face,
                             profile, cmp, rapid_attempts, warnings)
  IN IF IsRaise(verification_result) THEN SystemError(verification_result)
     ELSE IF ~verification_result.success THEN verification_result
     ELSE
     LET validation_result == validation_location(pre.wfh_request, latitude, longitude)
     IN IF ~validation_result.success THEN validation_result
        ELSE SystemError(create_record_call(pre.employee, pre.assigned_shift,
                                            pre.wfh_request, verification_result,
                                            validation_result))

\* The submissions of the model: what the caller sends (photo, coordinates,
\* use_face) and what the collaborators answer for it (the stored profile
\* image, the result of compare_faces, the findings of the security service).
Submission(photo, gps, use_face, profile, cmp, rapid_attempts, warnings) ==
  [photo |-> photo, latitude |-> gps[1], longitude |-> gps[2],
   use_face |-> use_face, profile |-> profile, cmp |-> cmp,
   rapid_attempts |-> rapid_attempts, warnings |-> warnings]

PhotoValues == {None, Some("img")}
GpsValues   == {<<None, None>>, <<Some(0), Some(OfficeLon)>>,
                <<Some(OfficeLat), Some(OfficeLon)>>,
                <<Some(OfficeLat + 10), Some(OfficeLon)>>}
FaceMatch    == [match |-> TRUE, confidence |-> 72]
FaceMismatch == [match |-> FALSE, confidence |-> 35]
FaceCases == {<<FALSE, None, FaceMatch>>,
              <<TRUE, None, FaceMatch>>,
              <<TRUE, Some("profile"), FaceMatch>>,
              <<TRUE, Some("profile"), FaceMismatch>>,
              <<TRUE, Some("profile"), Raise("Exception", "face comparison failed")>>}
Submissions ==
  {Submission(photo, gps, f[1], f[2], f[3], rapid, {}) :
     photo \in PhotoValues, gps \in GpsValues, f \in FaceCases, rapid \in BOOLEAN}

\* Whether the submission's coordinates are given and within the radius
GeofencePass(sub) ==
  /\ TruthyNum(sub.latitude) /\ TruthyNum(sub.longitude)
  /\ haversine_distance(sub.latitude[1], sub.longitude[1],
                        OfficeLat, OfficeLon) <= MaxDistance

\* Whether every check of the stages passes for this submission in this state
ChecksPass(pre, sub) ==
  /\ pre.success
  /\ TruthyStr(sub.photo)
  /\ sub.use_face => (~IsRaise(sub.cmp) /\ sub.profile # None /\ sub.cmp.match)
  /\ <<pre.employee, Today>> \notin wfh => GeofencePass(sub)
  /\ ~sub.rapid_attempts

\* lines 75-84: the call starts and runs the pre-checks
MarkPreChecks(p, employee_id, db_ok) ==
  /\ mpc[p] = "idle"
  /\ LET pre == perform_pre_checks(employee_id)
     IN /\ mcall' = [mcall EXCEPT ![p] =
              [employee_id |-> employee_id, day |-> Today, before |-> store,
               pre |-> pre, checks_pass |-> FALSE]]
        /\ IF ~db_ok
             THEN /\ mpc' = [mpc EXCEPT ![p] = "done"]
                  /\ mres' = [mres EXCEPT ![p] =
                                SystemError(Raise("OperationalError", "database unavailable"))]
             ELSE IF ~pre.success
             THEN /\ mpc' = [mpc EXCEPT ![p] = "done"]
                  /\ mres' = [mres EXCEPT ![p] = pre]
             ELSE /\ mpc' = [mpc EXCEPT ![p] = "prechecked"]
                  /\ UNCHANGED mres
  /\ UNCHANGED <<payVars, envVars, checkVars, store, now, apprVars, stageVars>>

\* lines 86-126: verification, validation, record creation and the handler
MarkComplete(p, sub) ==
  /\ mpc[p] = "prechecked"
  /\ mpc' = [mpc EXCEPT ![p] = "done"]
  /\ mres' = [mres EXCEPT ![p] =
        mark_after_pre_checks(mcall[p].pre, sub.photo, sub.latitude, sub.longitude,
                              sub.use_face, sub.profile, sub.cmp,
                              sub.rapid_attempts, sub.warnings)]
  /\ mcall' = [mcall EXCEPT ![p].checks_pass = ChecksPass(mcall[p].pre, sub)]
  /\ UNCHANGED <<payVars, envVars, checkVars, store, now, apprVars, stageVars>>

mark_attendance_comprehensive(p) ==
  \/ \E employee_id \in EmployeeIds \cup {UnknownEmp}, db_ok \in BOOLEAN :
        MarkPreChecks(p, employee_id, db_ok)
  \/ \E sub \in Submissions : MarkComplete(p, sub)

Init ==
  /\ employees \in [EmployeeIds -> {"active", "inactive"}]
  /\ wfh \in SUBSET {<<e, StartNow \div SlotsPerDay>> : e \in EmployeeIds}
  /\ tz = 0
  /\ now = StartNow
  /\ store \in InitStores
  /\ IdleMark /\ IdleAppr /\ IdleStage /\ IdlePay /\ IdleCheck

MarkStep == \E p \in Callers : mark_attendance_comprehensive(p)

Next == MarkStep \/ Tick

Spec == Init /\ [][Next]_vars

\* --------------------------------- the stage methods, called one by one
\* lines 949-954
RecordCreationFailed ==
  StageFailure("record_creation_failed", "Failed to create attendance record")

\* lines 928-944
RecordCreated(row, verification_data) ==
  [success |-> TRUE,
   attendance |-> [id |-> row.id, date |-> row.date, status |-> row.status,
                   work_mode |-> row.work_mode,
                   requires_approval |-> row.requires_approval,
                   face_confidence |-> verification_data.face_match_confidence,
                   verification_method |->
                     IF verification_data.face_recognition_used
                       THEN "face_recognition" ELSE "photo"],
   message |-> "Attendance marked successfully"]

\* _save_attendance_photo, lines 992-1011: the path of the file, or None
\* when writing it fails (the exception is caught and logged)
save_attendance_photo(photo, photo_ok) ==
  IF photo_ok THEN Some("uploads/attendance_photos/emp.jpg") ELSE None

\* _create_attendance_record, lines 866-954.  table: the Attendance table; id:
\* the key the insert gets; at: datetime.utcnow().  commit_ok: the commit of
\* line 915 goes through; notify_ok, alert_ok: notify_late_attendance_flagged
\* (920) and _send_fraud_alert (924) return without raising.  The handler of
\* 946-954 rolls back, which undoes nothing once line 915 has committed.
create_attendance_record(table, id, employee, at, verification_data, validation_data, commit_ok, notify_ok, alert_ok) ==
  LET row == Row(id, employee, at, validation_data.attendance_status,
                 validation_data.requires_approval, validation_data.work_mode,
                 verification_data.fraud_indicators # {})
  IN IF ~commit_ok
       THEN [result |-> RecordCreationFailed, table |-> table]
     ELSE IF validation_data.requires_approval /\ ~notify_ok
       THEN [result |-> RecordCreationFailed, table |-> Append(table, row)]
     ELSE IF verification_data.fraud_indicators # {} /\ ~alert_ok
       THEN [result |-> RecordCreationFailed, table |-> Append(table, row)]
     ELSE [result |-> RecordCreated(row, verification_data),
           table |-> Append(table, row)]

\* A late check-in classified late without being flagged for approval
ValidationData_LateUnflagged(late, wfh_request) ==
  [attendance_status |-> IF late THEN "late" ELSE "present",
   requires_approval |-> FALSE,
   work_mode |-> IF wfh_request # None THEN "wfh" ELSE "office"]

\* What _perform_validation hands to the record stage (lines 788-795,
\* 825-826, 838-839): present, or late with requires_approval
ValidationData(late, wfh_request) ==
  [attendance_status |-> IF late THEN "late" ELSE "present",
   requires_approval |-> late,
   work_mode |-> IF wfh_request # None THEN "wfh" ELSE "office"]

\* What _perform_verification hands over (lines 526-533, 552-553, 569-570,
\* 579); face: <<use_face_recognition, confidence of the match>>
VerificationData(face, wfh_request, warnings) ==
  [face_recognition_used |-> face[1],
   face_match_confidence |-> face[2],
   gps_validated |-> wfh_request = None,
   fraud_indicators |-> warnings]


\* _perform_pre_checks called for an employee
StagePreChecks(d, employee_id) ==
  /\ spc[d] = "idle"
  /\ LET pre == perform_pre_checks(employee_id)
     IN /\ scall' = [scall EXCEPT ![d] =
              [employee_id |-> employee_id, day |-> Today, seen |-> Len(store),
               pre |-> pre, returned_day |-> Today,
               committed |-> FALSE, failed_effects |-> {}, late |-> FALSE]]
        /\ IF pre.success
             THEN /\ spc' = [spc EXCEPT ![d] = "prechecked"]
                  /\ UNCHANGED sres
             ELSE /\ spc' = [spc EXCEPT ![d] = "done"]
                  /\ sres' = [sres EXCEPT ![d] = pre]
  /\ UNCHANGED <<payVars, envVars, checkVars, store, now, markVars, apprVars>>

\* The side effects of lines 883-885, 919-920 and 923-924 that ran and failed
FailedEffects(photo_url, validation_data, verification_data, commit_ok, notify_ok, alert_ok) ==
  LET notified == validation_data.requires_approval
      alerted  == verification_data.fraud_indicators # {}
  IN (IF photo_url = None THEN {"photo"} ELSE {})
     \cup (IF commit_ok /\ notified /\ ~notify_ok THEN {"notification"} ELSE {})
     \cup (IF commit_ok /\ (notified => notify_ok) /\ alerted /\ ~alert_ok
             THEN {"fraud_alert"} ELSE {})

\* _create_attendance_record called with what the pre-checks returned
StageCreateRecord(d, late, face, warnings, photo_ok, commit_ok, notify_ok, alert_ok) ==
  /\ spc[d] = "prechecked"
  /\ LET pre == scall[d].pre
         verification_data == VerificationData(face, pre.wfh_request, warnings)
         validation_data == ValidationData(late, pre.wfh_request)
         photo_url == save_attendance_photo("img", photo_ok)
         out == create_attendance_record(
                  store, Len(store) + 1, pre.employee, UtcNow,
                  verification_data, validation_data,
                  commit_ok, notify_ok, alert_ok)
     IN /\ store' = out.table
        /\ sres' = [sres EXCEPT ![d] = out.result]
        /\ scall' = [scall EXCEPT
              ![d].returned_day = Today,
              ![d].committed = commit_ok,
              ![d].late = late,
              ![d].failed_effects =
                 FailedEffects(photo_url, validation_data, verification_data,
                               commit_ok, notify_ok, alert_ok)]
  /\ spc' = [spc EXCEPT ![d] = "done"]
  /\ UNCHANGED <<payVars, envVars, checkVars, now, markVars, apprVars>>

InitStages ==
  /\ employees = [e \in EmployeeIds |-> "active"]
  /\ wfh \in {{}, {<<1, StartNow \div SlotsPerDay>>}}
  /\ tz \in TzOffsets
  /\ now = StartNow
  /\ store \in {s \in InitStores :
                   \A i \in 1..Len(s) : s[i].date <= StartNow - tz
                                          /\ s[i].status \in {"present", "late"}}
  /\ IdleMark /\ IdleAppr /\ IdleStage /\ IdlePay /\ IdleCheck

PreChecksStep ==
  \E d \in Callers, employee_id \in EmployeeIds : StagePreChecks(d, employee_id)
\* What the earlier stages hand over: <<late, face, warnings>>
RecordCases ==
  {<<FALSE, <<FALSE, 0>>, {}>>, <<TRUE, <<FALSE, 0>>, {}>>,
   <<FALSE, <<TRUE, 65>>, {}>>, <<FALSE, <<TRUE, 90>>, {}>>,
   <<FALSE, <<FALSE, 0>>, {"low_face_confidence"}>>,
   <<TRUE, <<TRUE, 65>>, {"low_face_confidence"}>>}
\* What goes wrong during the stage: nothing, or one of its four effects
AllOk == [photo_ok |-> TRUE, commit_ok |-> TRUE, notify_ok |-> TRUE, alert_ok |-> TRUE]
FaultCases ==
  {AllOk, [AllOk EXCEPT !.photo_ok = FALSE], [AllOk EXCEPT !.commit_ok = FALSE],
   [AllOk EXCEPT !.notify_ok = FALSE], [AllOk EXCEPT !.alert_ok = FALSE]}

CreateRecordStep ==
  \E d \in Callers, c \in RecordCases, f \in FaultCases :
     StageCreateRecord(d, c[1], c[2], c[3], f.photo_ok, f.commit_ok, f.notify_ok, f.alert_ok)

NextStages == PreChecksStep \/ CreateRecordStep \/ Tick

SpecStages == InitStages /\ [][NextStages]_vars

\* ------------------------------------------ a record from creation on
\* The table starts empty: every row is one the record stage created, and
\* reviewers call approve_attendance on the rows they find.
InitLifecycle ==
  /\ employees = [e \in EmployeeIds |-> "active"]
  /\ wfh = {}
  /\ tz = 0
  /\ now = StartNow
  /\ store = <<>>
  /\ IdleMark /\ IdleAppr /\ IdleStage /\ IdlePay /\ IdleCheck

\* The stage methods called for employee 1, every side effect of the record
\* stage succeeding, on what the earlier stages hand over for a submission
\* without face recognition
LifecycleCases == {c \in RecordCases : ~c[2][1]}
LifecyclePreChecks == \E d \in Callers : StagePreChecks(d, 1)
CreateRecordOk ==
  \E d \in Callers, c \in LifecycleCases :
     StageCreateRecord(d, c[1], c[2], c[3], TRUE, TRUE, TRUE, TRUE)
\* approve_attendance called on a row of the table
LifecycleApprove ==
  \E r \in Reviewers :
     \/ \E id \in RowIds : ApproveLoad(r, id, None)
     \/ ApproveCommit(r)

NextLifecycle == LifecyclePreChecks \/ CreateRecordOk \/ LifecycleApprove

SpecLifecycle == InitLifecycle /\ [][NextLifecycle]_vars

\* ------------------------- mark_attendance_comprehensive and the WFH table
\* The WFH subsystem (section 3: the owner of the WFHApproval rows) approves
\* an employee's request for today or withdraws it, at any moment
WfhApprove(e) ==
  /\ <<e, Today>> \notin wfh
  /\ wfh' = wfh \cup {<<e, Today>>}
  /\ UNCHANGED <<payVars, employees, tz, checkVars, store, now, markVars, apprVars, stageVars>>

WfhWithdraw(e) ==
  /\ <<e, Today>> \in wfh
  /\ wfh' = wfh \ {<<e, Today>>}
  /\ UNCHANGED <<payVars, employees, tz, checkVars, store, now, markVars, apprVars, stageVars>>

InitWfh ==
  /\ employees = [e \in EmployeeIds |-> "active"]
  /\ wfh \in {{}, {<<1, StartNow \div SlotsPerDay>>}}
  /\ tz = 0
  /\ now = StartNow
  /\ store = <<>>
  /\ IdleMark /\ IdleAppr /\ IdleStage /\ IdlePay /\ IdleCheck

WfhApproveStep  == \E e \in EmployeeIds : WfhApprove(e)
WfhWithdrawStep == \E e \in EmployeeIds : WfhWithdraw(e)

NextWfh == MarkStep \/ WfhApproveStep \/ WfhWithdrawStep

SpecWfh == InitWfh /\ [][NextWfh]_vars

\* ------------------------------------------------------- PayrollService
\* The Payroll rows of one month, at most one per employee; the id of a row
\* is taken to be its employee's.  amounts stands for the earnings,
\* deductions and totals computed by lines 44-56.
PayrollRow(employee_id, amounts) ==
  [employee_id |-> employee_id, amounts |-> amounts, status |-> "calculated",
   approved_by |-> None]

\* What lines 31-56 compute from the salary structure, the attendance of the
\* month and the manual adjustments at the time of the call
PayAmounts == {1000, 1200}
\* How lines 31-56 end: the computation succeeds, the employee or the salary
\* structure is missing (33-39), or an exception is raised (114-117)
CalcOutcomes == {"ok", "no_structure", "error"}

\* calculate_employee_payroll, lines 20-117, on the Payroll table: the table
\* after the call and whether the call succeeded.  payroll_data (line 59-87)
\* carries status "calculated"; an existing row has every key of it
\* overwritten (96-99), whatever its status.
calculate_employee_payroll(table, employee_id, outcome, amounts) ==
  IF employee_id \notin DOMAIN employees \/ outcome # "ok"
    THEN [success |-> FALSE, table |-> table]
  ELSE IF table[employee_id] # None
    THEN [success |-> TRUE,
          table |-> [table EXCEPT ![employee_id] =
                       [@ EXCEPT !.amounts = amounts, !.status = "calculated"]]]
  ELSE [success |-> TRUE,
        table |-> [table EXCEPT ![employee_id] = PayrollRow(employee_id, amounts)]]

\* The loop of lines 325-330 and 514-539: calculate_employee_payroll for each
\* id of the list in turn.  todo: the ids still to do; failed: the ids that
\* failed so far
RECURSIVE calculate_each(_, _, _, _, _)
calculate_each(table, todo, outcome, amounts, failed) ==
  IF todo = {} THEN [table |-> table, failed |-> failed]
  ELSE LET e == CHOOSE x \in todo : \A y \in todo : x <= y
           r == calculate_employee_payroll(table, e, outcome[e], amounts[e])
       IN calculate_each(r.table, todo \ {e}, outcome, amounts,
                         IF r.success THEN failed ELSE failed \cup {e})

PayrollIds == EmployeeIds \cup {UnknownEmp}
PayNote(op, ids, success) ==
  [op |-> op, ids |-> ids, success |-> success]

CalculateEmployeePayroll(employee_id, outcome, amounts) ==
  /\ LET r == calculate_employee_payroll(payroll, employee_id, outcome, amounts)
     IN /\ payroll' = r.table
        /\ pcall' = PayNote("calculate", {employee_id}, r.success)
  /\ UNCHANGED <<batches, envVars, checkVars, store, now, markVars, apprVars, stageVars>>

\* bulk_calculate_payroll, lines 310-343
BulkCalculatePayroll(employee_ids, outcome, amounts) ==
  /\ LET r == calculate_each(payroll, employee_ids, outcome, amounts, {})
     IN /\ payroll' = r.table
        /\ pcall' = PayNote("bulk", employee_ids, TRUE)
  /\ UNCHANGED <<batches, envVars, checkVars, store, now, markVars, apprVars, stageVars>>

\* process_payroll_batch, lines 493-563
ProcessPayrollBatch(employee_ids, outcome, amounts) ==
  /\ Len(batches) < MaxBatches
  /\ LET r == calculate_each(payroll, employee_ids, outcome, amounts, {})
     IN /\ payroll' = r.table
        /\ batches' = Append(batches,
              [total_employees |-> Cardinality(employee_ids),
               processed_employees |-> Cardinality(employee_ids \ r.failed),
               failed_employees |-> Cardinality(r.failed),
               status |-> IF r.failed = {} THEN "completed"
                          ELSE "completed_with_errors"])
        /\ pcall' = PayNote("batch", employee_ids, TRUE)
  /\ UNCHANGED <<envVars, checkVars, store, now, markVars, apprVars, stageVars>>

\* approve_payroll, lines 345-369
ApprovePayroll(payroll_id, approved_by) ==
  /\ IF payroll_id \notin EmployeeIds \/ payroll[payroll_id] = None
       THEN /\ pcall' = PayNote("approve", {payroll_id}, FALSE)
            /\ UNCHANGED payroll
       ELSE IF payroll[payroll_id].status # "calculated"
       THEN /\ pcall' = PayNote("approve", {payroll_id}, FALSE)
            /\ UNCHANGED payroll
       ELSE /\ payroll' = [payroll EXCEPT ![payroll_id] =
                             [@ EXCEPT !.status = "approved",
                                       !.approved_by = Some(approved_by)]]
            /\ pcall' = PayNote("approve", {payroll_id}, TRUE)
  /\ UNCHANGED <<batches, envVars, checkVars, store, now, markVars, apprVars, stageVars>>

InitPayroll ==
  /\ employees = [e \in EmployeeIds |-> "active"]
  /\ wfh = {}
  /\ tz = 0
  /\ now = StartNow
  /\ store = <<>>
  /\ IdleMark /\ IdleAppr /\ IdleStage /\ IdleCheck
  /\ payroll = [e \in EmployeeIds |-> None]
  /\ batches = <<>>
  /\ pcall = NoCall

CalculateStep ==
  \E e \in PayrollIds, o \in CalcOutcomes, a \in PayAmounts :
     CalculateEmployeePayroll(e, o, a)
\* For the calls on a list of ids: every calculation succeeds, or that of
\* employee 1 raises
OutcomeCases ==
  {[e \in PayrollIds |-> "ok"], [e \in PayrollIds |-> IF e = 1 THEN "error" ELSE "ok"]}
BulkStep ==
  \E ids \in SUBSET PayrollIds \ {{}}, o \in OutcomeCases, a \in PayAmounts :
     BulkCalculatePayroll(ids, o, [e \in PayrollIds |-> a])
BatchStep ==
  \E ids \in SUBSET PayrollIds \ {{}}, o \in OutcomeCases, a \in PayAmounts :
     ProcessPayrollBatch(ids, o, [e \in PayrollIds |-> a])
ApprovePayrollStep ==
  \E id \in PayrollIds, r \in Reviewers : ApprovePayroll(id, r)

NextPayroll == CalculateStep \/ BulkStep \/ BatchStep \/ ApprovePayrollStep

SpecPayroll == InitPayroll /\ [][NextPayroll]_vars

\* ------------------------------------------------ the checks, one by one
\* Times of day are counted in minutes after midnight.
MinutesPerDay == 1440
Clock(h, mi) == 60 * h + mi

\* lines 51-55
SHIFT_WINDOWS ==
  [ms |-> [name |-> "Morning Shift", start |-> Clock(8, 0),  end |-> Clock(11, 0),  grace |-> 15],
   es |-> [name |-> "Evening Shift", start |-> Clock(13, 0), end |-> Clock(16, 0),  grace |-> 15],
   ns |-> [name |-> "Night Shift",   start |-> Clock(21, 0), end |-> Clock(23, 59), grace |-> 15]]
ShiftNames == {SHIFT_WINDOWS[k].name : k \in DOMAIN SHIFT_WINDOWS}

\* lines 801-803: SHIFT_WINDOWS.get(assigned_shift.name, {9:00, 11:00, 15})
ShiftConfig(shift_name) ==
  IF shift_name \in ShiftNames
    THEN LET k == CHOOSE k \in DOMAIN SHIFT_WINDOWS : SHIFT_WINDOWS[k].name = shift_name
         IN SHIFT_WINDOWS[k]
    ELSE [name |-> shift_name, start |-> Clock(9, 0), end |-> Clock(11, 0), grace |-> 15]

\* lines 983-990
calculate_late_minutes(current_time, expected_time) ==
  IF current_time > expected_time THEN current_time - expected_time ELSE 0

\* lines 788-842: the time classification.  assigned_shift: None or the
\* name of the Shift row; current_time: datetime.now().time()
validation_time(assigned_shift, wfh_request, current_time) ==
  LET base == [within_time_window |-> FALSE, requires_approval |-> FALSE,
               attendance_status |-> "present",
               work_mode |-> IF wfh_request # None THEN "wfh" ELSE "office",
               late_minutes |-> 0, shift_window |-> None]
      late(end) == [base EXCEPT !.requires_approval = TRUE,
                                !.attendance_status = "late",
                                !.late_minutes = calculate_late_minutes(current_time, end)]
  IN IF assigned_shift # None
       THEN LET cfg == ShiftConfig(assigned_shift[1])
                \* (datetime.combine(today, end) + timedelta(grace)).time()
                grace_end == (cfg.end + cfg.grace) % MinutesPerDay
                window == Some(<<cfg.start, cfg.end, cfg.grace>>)
            IN IF cfg.start <= current_time /\ current_time <= cfg.end
                 THEN [base EXCEPT !.within_time_window = TRUE, !.shift_window = window]
               ELSE IF current_time <= grace_end
                 THEN [base EXCEPT !.within_time_window = TRUE, !.shift_window = window,
                                   !.late_minutes = calculate_late_minutes(current_time, cfg.end)]
               ELSE [late(cfg.end) EXCEPT !.shift_window = window]
       ELSE IF Clock(9, 0) <= current_time /\ current_time <= Clock(11, 0)
              THEN [base EXCEPT !.within_time_window = TRUE]
              ELSE late(Clock(11, 0))

\* _perform_validation, lines 768-864
perform_validation(assigned_shift, wfh_request, latitude, longitude, current_time) ==
  LET validation_data == validation_time(assigned_shift, wfh_request, current_time)
      location == validation_location(wfh_request, latitude, longitude)
  IN IF ~location.success THEN location
     ELSE [success |-> TRUE, validation_data |-> validation_data,
           details |-> [status |-> validation_data.attendance_status,
                        requires_approval |-> validation_data.requires_approval,
                        late_minutes |-> validation_data.late_minutes]]

\* The arguments of the checks
ShiftValues == {None} \cup {Some(n) : n \in ShiftNames \cup {"General Shift"}}
ValidationCalls ==
  {[op |-> "validation", assigned_shift |-> sh, wfh_request |-> w,
    latitude |-> g[1], longitude |-> g[2], current_time |-> t] :
     sh \in ShiftValues, w \in {None, Some(<<1, 1>>)},
     g \in {<<None, None>>, <<Some(OfficeLat), Some(OfficeLon)>>},
     t \in 0..(MinutesPerDay - 1)}

\* Coordinates: absent, 0 degrees, and the points within GpsSpan units of
\* the office on each axis
GpsSpan == 12
LatValues == {None, Some(0)} \cup {Some(OfficeLat + k) : k \in -GpsSpan..GpsSpan}
LonValues == {None, Some(0)} \cup {Some(OfficeLon + k) : k \in -GpsSpan..GpsSpan}
GpsCalls ==
  {[op |-> "gps", latitude |-> la, longitude |-> lo] :
     la \in LatValues, lo \in LonValues}

\* face_recognition_utils.compare_faces, lines 197-349.  Distances and the
\* tolerance are counted in hundredths; the confidence returned is counted
\* in hundredths of a percent (round(adjusted_confidence, 2)).
\* early: which of the early returns is taken ("none": the comparison runs);
\* liveness_low: overall_score < 50; quality_low: quality_score < 80;
\* not_live: is_likely_live is false; liveness_warnings: their number.
Min(a, b) == IF a < b THEN a ELSE b
Max(a, b) == IF a > b THEN a ELSE b
FaceTolerance == 60   \* tolerance=0.6

\* A comparison that tests the raw confidence, not the adjusted one, against 85
compare_faces_raw85(early, face_distance, tolerance, not_live, liveness_warnings, liveness_low, quality_low) ==
  IF early # "none" THEN [match |-> FALSE, confidence |-> 0]
  ELSE
  LET security_warnings == (IF not_live THEN 1 ELSE 0) + liveness_warnings
      confidence == Max(0, Min(100, 100 - face_distance))
      modifier == ((IF liveness_low THEN 80 ELSE 100) * (IF quality_low THEN 90 ELSE 100))
      adjusted == (confidence * modifier) \div 100
  IN [match |-> face_distance <= tolerance
                  /\ ~(security_warnings >= 2 /\ confidence < 85),
      confidence |-> adjusted]

compare_faces(early, face_distance, tolerance, not_live, liveness_warnings, liveness_low, quality_low) ==
  IF early # "none" THEN [match |-> FALSE, confidence |-> 0]
  ELSE
  LET security_warnings == (IF not_live THEN 1 ELSE 0) + liveness_warnings
      confidence == Max(0, Min(100, 100 - face_distance))
      modifier == ((IF liveness_low THEN 80 ELSE 100) * (IF quality_low THEN 90 ELSE 100))
      \* confidence * modifier is in millionths; two decimals are kept
      adjusted == (confidence * modifier) \div 100
  IN [match |-> face_distance <= tolerance
                  /\ ~(security_warnings >= 2 /\ adjusted < 8500),
      confidence |-> adjusted]

EarlyReturns == {"none", "library_missing", "profile_undecodable",
                 "photo_undecodable", "quality_too_low", "no_face_in_profile",
                 "no_face_in_photo", "exception"}
MaxFaceDistance == 110
FaceCalls ==
  {[op |-> "face", profile |-> Some("profile"), early |-> "none",
    face_distance |-> d, not_live |-> nl, liveness_warnings |-> w,
    liveness_low |-> ll, quality_low |-> ql] :
     d \in 0..MaxFaceDistance, nl \in BOOLEAN, w \in 0..2,
     ll \in BOOLEAN, ql \in BOOLEAN}
  \cup
  {[op |-> "face", profile |-> pr, early |-> e,
    face_distance |-> 30, not_live |-> FALSE, liveness_warnings |-> 0,
    liveness_low |-> FALSE, quality_low |-> FALSE] :
     pr \in {None, Some("profile")}, e \in EarlyReturns}

\* detect_image_quality, lines 59-127.  failed: the analysis raises and the
\* handler of 122-127 answers; otherwise the score starts at 100 and loses
\* points for each issue found.
detect_image_quality(failed, brightness, contrast, blur_score, size_adequate) ==
  IF failed THEN [quality_score |-> 50, acceptable |-> TRUE]
  ELSE
  LET quality_score ==
        100 - (IF brightness < 50 THEN 20 ELSE IF brightness > 200 THEN 15 ELSE 0)
            - (IF contrast < 30 THEN 15 ELSE 0)
            - (IF blur_score < 100 THEN 25 ELSE 0)
            - (IF size_adequate THEN 0 ELSE 30)
  IN [quality_score |-> Max(0, quality_score), acceptable |-> quality_score >= 60]

\* detect_liveness_indicators, lines 129-195.  The three indicators are in
\* 0..100; overall_score is counted in hundredths; warnings is the number
\* of warnings.  failed: the handler of 187-195 answers.
detect_liveness_indicators(failed, texture_analysis, edge_density, color_distribution) ==
  IF failed THEN [overall_score |-> 5000, is_likely_live |-> TRUE, warnings |-> 1]
  ELSE
  LET overall_score == 40 * texture_analysis + 30 * edge_density + 30 * color_distribution
  IN [overall_score |-> overall_score,
      is_likely_live |-> ~(overall_score < 3000),
      warnings |-> (IF overall_score < 3000 THEN 1 ELSE 0)
                   + (IF edge_density < 20 THEN 1 ELSE 0)]

\* compare_faces from the two analyses of the submitted image on (lines
\* 247-334).  encoding_error: "none", or which get_face_encoding fails.
compare_faces_analysed(quality_analysis, liveness_analysis, encoding_error, face_distance, tolerance) ==
  LET early == IF ~quality_analysis.acceptable THEN "quality_too_low" ELSE encoding_error
      result == compare_faces(early, face_distance, tolerance,
                              ~liveness_analysis.is_likely_live,
                              liveness_analysis.warnings,
                              liveness_analysis.overall_score < 5000,
                              quality_analysis.quality_score < 80)
  IN [match |-> result.match, confidence |-> result.confidence,
      message |-> IF early = "quality_too_low" THEN "Image quality too low"
                  ELSE IF early # "none" THEN "Image error"
                  ELSE IF result.match THEN "Face matched successfully"
                  ELSE "Face does not match profile",
      security_analysis |-> [quality_check |-> quality_analysis,
                             liveness_check |-> liveness_analysis]]

\* The submitted images: what the two analyses measure on them
QualityInputs ==
  {[failed |-> FALSE, brightness |-> b, contrast |-> c, blur_score |-> bl, size_adequate |-> sz] :
     b \in {40, 120, 210}, c \in {20, 50}, bl \in {50, 150}, sz \in BOOLEAN}
  \cup {[failed |-> TRUE, brightness |-> 120, contrast |-> 50, blur_score |-> 150, size_adequate |-> TRUE]}
LivenessInputs ==
  {[failed |-> FALSE, texture_analysis |-> t, edge_density |-> e, color_distribution |-> c] :
     t \in {0, 50, 100}, e \in {0, 10, 20, 100}, c \in {0, 100}}
  \cup {[failed |-> TRUE, texture_analysis |-> 50, edge_density |-> 50, color_distribution |-> 50]}
CompareDistances == {0, 10, 15, 16, 40, 60, 61, 100, 110}
CompareCalls ==
  {[op |-> "compare", quality |-> q, liveness |-> l, encoding_error |-> e, face_distance |-> d] :
     q \in QualityInputs, l \in LivenessInputs,
     e \in {"none", "no_face_in_photo"}, d \in CompareDistances}

\* One whole call of mark_attendance_comprehensive (lines 75-126)
mark_result(employee_id, sub, db_ok) ==
  IF ~db_ok THEN SystemError(Raise("OperationalError", "database unavailable"))
  ELSE LET pre == perform_pre_checks(employee_id)
       IN IF ~pre.success THEN pre
          ELSE mark_after_pre_checks(pre, sub.photo, sub.latitude, sub.longitude,
                                     sub.use_face, sub.profile, sub.cmp,
                                     sub.rapid_attempts, sub.warnings)

MarkCalls ==
  {[op |-> "mark", employee_id |-> e, sub |-> sub] :
     e \in {1, UnknownEmp}, sub \in Submissions}

\* The shift looked up for every employee, given the shift each one is
\* assigned to (None: no shift assigned) and the rows of the Shift table
ShiftCalls ==
  {[op |-> "shift", assigned |-> a, shift_table |-> t] :
     a \in [EmployeeIds -> ShiftValues], t \in {ShiftNames, {}}}

SecurityFailed == StageFailure("security_validation_failed", "Security validation failed")

\* Whether a submission gets as far as the call of the security service
\* (line 573): it is refused there when the service blocks
ReachesSecurity(employee_id, sub) ==
  mark_result(employee_id, [sub EXCEPT !.rapid_attempts = TRUE], TRUE) = SecurityFailed

\* The security service's count of prior attempts of the employee within
\* the last five minutes (section 4.4): the attempts it has seen are the
\* calls made to it
prior_attempt_known(employee_id, earlier) ==
  ReachesSecurity(employee_id, earlier)

\* Two submissions of one employee, the second right after the first has
\* returned
RepeatSubmissions == {sub \in Submissions : ~sub.rapid_attempts}
RepeatCalls ==
  {[op |-> "repeat", employee_id |-> 1, first |-> s1, second |-> s2] :
     s1 \in RepeatSubmissions, s2 \in RepeatSubmissions}

\* The tables a mark call finds: employee 1 active or not, on approved WFH
\* today or not, with no attendance row, one of yesterday or one of today
MarkEmployees == {[e \in EmployeeIds |-> IF e = 1 THEN st ELSE "active"] :
                    st \in {"active", "inactive"}}
MarkWfh    == {{}, {<<1, StartNow \div SlotsPerDay>>}}
MarkStores == {<<>>} \cup {<<InitRow(1, 1, d, "present")>> : d \in InitDates}

CheckCalls ==
  ValidationCalls \cup GpsCalls \cup MarkCalls \cup FaceCalls \cup RepeatCalls
    \cup ShiftCalls \cup CompareCalls

RunValidation ==
  /\ kpc = "called" /\ kcall.op = "validation"
  /\ kres' = perform_validation(kcall.assigned_shift, kcall.wfh_request,
                                kcall.latitude, kcall.longitude, kcall.current_time)
  /\ kpc' = "done"
  /\ UNCHANGED <<payVars, envVars, store, now, kcall, markVars, apprVars, stageVars>>

RunGps ==
  /\ kpc = "called" /\ kcall.op = "gps"
  /\ kres' = validate_gps_location(kcall.latitude, kcall.longitude)
  /\ kpc' = "done"
  /\ UNCHANGED <<payVars, envVars, store, now, kcall, markVars, apprVars, stageVars>>

\* _verify_face_recognition on the outcome of compare_faces(tolerance=0.6)
RunFace ==
  /\ kpc = "called" /\ kcall.op = "face"
  /\ kres' = verify_face_recognition(
                kcall.profile,
                compare_faces(kcall.early, kcall.face_distance, FaceTolerance,
                              kcall.not_live, kcall.liveness_warnings,
                              kcall.liveness_low, kcall.quality_low))
  /\ kpc' = "done"
  /\ UNCHANGED <<payVars, envVars, store, now, kcall, markVars, apprVars, stageVars>>

RunMark ==
  /\ kpc = "called" /\ kcall.op = "mark"
  /\ kres' = mark_result(kcall.employee_id, kcall.sub, TRUE)
  /\ kpc' = "done"
  /\ UNCHANGED <<payVars, envVars, store, now, kcall, markVars, apprVars, stageVars>>

\* Two calls of mark_attendance_comprehensive in a row; neither writes to
\* the tables (the record stage is not reached)
RunRepeat ==
  /\ kpc = "called" /\ kcall.op = "repeat"
  /\ kres' =
       [first  |-> mark_result(kcall.employee_id, kcall.first, TRUE),
        second |-> mark_result(
                    kcall.employee_id,
                    [kcall.second EXCEPT !.rapid_attempts =
                        prior_attempt_known(kcall.employee_id, kcall.first)],
                    TRUE)]
  /\ kpc' = "done"
  /\ UNCHANGED <<payVars, envVars, store, now, kcall, markVars, apprVars, stageVars>>

\* Check 4 of the pre-checks (line 490) for each employee
RunShift ==
  /\ kpc = "called" /\ kcall.op = "shift"
  /\ kres' = [assigned_shift |->
                [e \in EmployeeIds |-> get_employee_shift(e, kcall.shift_table)]]
  /\ kpc' = "done"
  /\ UNCHANGED <<payVars, envVars, store, now, kcall, markVars, apprVars, stageVars>>

\* compare_faces(profile, photo, tolerance=0.6) on a submitted image
RunCompare ==
  /\ kpc = "called" /\ kcall.op = "compare"
  /\ kres' = compare_faces_analysed(
                detect_image_quality(kcall.quality.failed, kcall.quality.brightness,
                                     kcall.quality.contrast, kcall.quality.blur_score,
                                     kcall.quality.size_adequate),
                detect_liveness_indicators(kcall.liveness.failed,
                                           kcall.liveness.texture_analysis,
                                           kcall.liveness.edge_density,
                                           kcall.liveness.color_distribution),
                kcall.encoding_error, kcall.face_distance, FaceTolerance)
  /\ kpc' = "done"
  /\ UNCHANGED <<payVars, envVars, store, now, kcall, markVars, apprVars, stageVars>>

InitChecks ==
  /\ tz = 0
  /\ now = StartNow
  /\ IdleMark /\ IdleAppr /\ IdleStage /\ IdlePay
  /\ kpc = "called" /\ kcall \in CheckCalls /\ kres = NoResult
  /\ IF kcall.op \in {"mark", "repeat"}
       THEN employees \in MarkEmployees /\ wfh \in MarkWfh /\ store \in MarkStores
       ELSE /\ employees = [e \in EmployeeIds |-> "active"]
            /\ wfh = {} /\ store = <<>>

NextChecks ==
  RunValidation \/ RunGps \/ RunMark \/ RunFace \/ RunRepeat \/ RunShift \/ RunCompare

SpecChecks == InitChecks /\ [][NextChecks]_vars

\* =================================================================
\* Properties of the approval workflow (checked under SpecApproval)
\* =================================================================
ApproveDone(r) == apc[r] = "done" /\ acall[r].op = "approve"
RejectDone(r)  == apc[r] = "done" /\ acall[r].op = "reject"

\* C6: approve_attendance succeeds only on a record whose requires_approval
\* is true when the call reads it; on any other record it fails with the
\* not-pending error and changes nothing; an approve call made after a
\* successful one on the same record fails and changes nothing.
C6_ApproveOnlyWhenPending ==
  /\ [](\A r \in Reviewers :
          (ApproveDone(r) /\ acall[r].before # None) =>
             /\ ares[r].success <=> acall[r].pending
             /\ ~acall[r].pending => ares[r] = ApproveNotPending)
  /\ [][\A r \in Reviewers :
          (apc[r] = "idle" /\ apc'[r] # "idle" /\ acall'[r].op = "approve") =>
             LET id == acall'[r].id
                 refused == /\ apc'[r] = "done"
                            /\ ares'[r] = ApproveNotPending
                            /\ store' = store
             IN /\ (id \in RowIds /\ ~store[id].requires_approval) => refused
                /\ (\E q \in Reviewers :
                       /\ q # r /\ ApproveDone(q)
                       /\ acall[q].id = id /\ ares[q].success) => refused
       ]_vars

\* C6 witness: one reviewer approved a pending record, and another reviewer's
\* later approve of the same record was refused.
C6_Witness ==
  \E r, q \in Reviewers :
     /\ r # q /\ ApproveDone(r) /\ ApproveDone(q)
     /\ acall[r].id = acall[q].id
     /\ ares[r].success
     /\ ares[q] = ApproveNotPending
     /\ acall[q].before.approved_by = Some(r)
     /\ store[acall[r].id].approved_by = Some(r)

C7Table == [late |-> "present_late",
            remote_unverified |-> "remote_approved",
            identity_unverified |-> "present_approved"]

\* C7: an approve that commits on a record still pending clears
\* requires_approval, stamps the approver, the decision time and the notes,
\* and maps the status by the table late -> present_late, remote_unverified ->
\* remote_approved, identity_unverified -> present_approved; after a
\* successful approve the status is none of the three pre-approval statuses.
C7_ApproveStampsAndRemaps ==
  /\ [](\A r \in Reviewers :
          (ApproveDone(r) /\ ares[r].success) =>
             /\ store[acall[r].id].status \notin PreApprovalStatuses
             /\ ~store[acall[r].id].requires_approval)
  /\ [][\A r \in Reviewers :
          (apc[r] = "loaded" /\ apc'[r] = "done"
             /\ store[asnap[r].id].requires_approval) =>
             LET id  == asnap[r].id
                 old == store[id]
                 new == store'[id]
             IN /\ ares'[r].success
                /\ new.requires_approval = FALSE
                /\ new.approved_by = Some(r)
                /\ new.approved_at = Some(UtcNow)
                /\ new.approval_notes = acall[r].notes
                /\ new.status = IF old.status \in DOMAIN C7Table
                                  THEN C7Table[old.status] ELSE old.status
                /\ ares'[r].new_status = new.status
                /\ new.employee_id = old.employee_id /\ new.date = old.date
       ]_vars

\* C7 witness: an approved remote_unverified record carrying the reviewer's
\* stamp and notes.
C7_Witness ==
  \E r \in Reviewers :
     /\ ApproveDone(r) /\ ares[r].success
     /\ acall[r].before.status = "remote_unverified"
     /\ store[acall[r].id].status = "remote_approved"
     /\ store[acall[r].id].approved_by = Some(r)
     /\ store[acall[r].id].approval_notes = Some("note")
     /\ store[acall[r].id].approved_at # None

C9_OneApprovalWins ==
  \A r, q \in Reviewers :
     (/\ r # q /\ ApproveDone(r) /\ ApproveDone(q)
      /\ acall[r].id = acall[q].id
      /\ acall[r].pending /\ acall[q].pending)
        => /\ ares[r].success # ares[q].success
           /\ ApproveNotPending \in {ares[r], ares[q]}


\* =================================================================
\* Properties of mark_attendance_comprehensive (checked under Spec)
\* =================================================================
AlreadyMarked == StageFailure("already_marked", "Attendance already marked for today")

\* The kinds of failure of section 7
ErrorKinds ==
  {"employee_not_found", "employee_inactive", "already_marked", "photo_required",
   "face_recognition_failed", "profile_image_missing", "face_mismatch",
   "location_required", "location_too_far", "security_validation_failed",
   "location_required_office", "record_creation_failed", "system_error"}

MarkDone(p) == mpc[p] = "done"

\* C2: of two mark_attendance_comprehensive calls for the same employee on
\* the same day that overlap (both ran their pre-checks before either
\* returned) and that both pass every check, exactly one returns success and
\* the other returns the already_marked failure, and one record is added.
C2_OneOfTwoSucceeds ==
  \A p, q \in Callers :
     (/\ p # q /\ MarkDone(p) /\ MarkDone(q)
      /\ mcall[p].employee_id = mcall[q].employee_id
      /\ mcall[p].day = mcall[q].day
      /\ mcall[p].checks_pass /\ mcall[q].checks_pass) =>
        /\ \/ mres[p].success /\ mres[q] = AlreadyMarked
           \/ mres[q].success /\ mres[p] = AlreadyMarked
        /\ Len(store) = Len(mcall[p].before) + 1

\* C4: a mark_attendance_comprehensive call whose pre-checks, verification
\* and validation all pass returns success and has added one record; every
\* other finished call returns a failure.
C4_PassingCallSucceeds ==
  \A p \in Callers :
     MarkDone(p) =>
        IF mcall[p].checks_pass
          THEN /\ mres[p].success
               /\ Len(store) > Len(mcall[p].before)
          ELSE ~mres[p].success

\* C10: every finished mark_attendance_comprehensive call returns a dict; the
\* failures all carry their kind in one and the same field, with a value of
\* the fixed set of kinds, and a success dict has no error field.
C10_OneErrorField ==
  /\ \A p \in Callers :
        (MarkDone(p) /\ mres[p].success) =>
           DOMAIN mres[p] \cap {"error", "error_type"} = {}
  /\ \E f \in {"error", "error_type"} :
        \A p \in Callers :
           (MarkDone(p) /\ ~mres[p].success) =>
              f \in DOMAIN mres[p] /\ mres[p][f] \in ErrorKinds

C11_SideEffectsDoNotFail ==
  \A d \in Callers :
     (spc[d] = "done" /\ scall[d].committed /\ scall[d].failed_effects # {}) =>
        sres[d].success

\* =================================================================
\* Properties of the single checks (checked under SpecChecks)
\* =================================================================
ValidationDone ==
  kpc = "done" /\ kcall.op = "validation" /\ kres.success

\* The check-in instant counted from the midnight that starts the shift's
\* day: a time of day up to end + grace - 24h belongs to the shift that
\* began the evening before
ShiftInstant(cfg, t) ==
  IF cfg.end + cfg.grace >= MinutesPerDay /\ t <= cfg.end + cfg.grace - MinutesPerDay
    THEN t + MinutesPerDay ELSE t

\* C12: for every shift of the table and every check-in minute,
\* _perform_validation puts start <= now <= end in the main window with no
\* approval, end < now <= end + grace in the grace period with no approval
\* and grace_period_used set, and now > end + grace at status late with
\* requires_approval; both boundaries are inclusive.
C12_ShiftWindowClasses ==
  (ValidationDone /\ kcall.assigned_shift # None
     /\ kcall.assigned_shift[1] \in ShiftNames) =>
    LET cfg == ShiftConfig(kcall.assigned_shift[1])
        t   == ShiftInstant(cfg, kcall.current_time)
        vd  == kres.validation_data
    IN /\ (cfg.start <= t /\ t <= cfg.end) =>
             /\ vd.within_time_window /\ ~vd.requires_approval
             /\ vd.attendance_status = "present"
       /\ (cfg.end < t /\ t <= cfg.end + cfg.grace) =>
             /\ vd.within_time_window /\ ~vd.requires_approval
             /\ vd.attendance_status = "present"
             /\ "grace_period_used" \in DOMAIN vd
             /\ vd["grace_period_used"] = TRUE
       /\ (t > cfg.end + cfg.grace) =>
             /\ vd.requires_approval /\ vd.attendance_status = "late"

\* C13: for every shift of the table, late_minutes is the number of whole
\* minutes from the shift's end to a check-in after it, it is 0 for a
\* check-in in the main window and it is never negative.
C13_LateMinutes ==
  (ValidationDone /\ kcall.assigned_shift # None
     /\ kcall.assigned_shift[1] \in ShiftNames) =>
    LET cfg == ShiftConfig(kcall.assigned_shift[1])
        t   == ShiftInstant(cfg, kcall.current_time)
        vd  == kres.validation_data
    IN /\ vd.late_minutes >= 0
       /\ (cfg.start <= t /\ t <= cfg.end) => vd.late_minutes = 0
       /\ t > cfg.end => vd.late_minutes = t - cfg.end


LocationRequired == StageFailure("location_required", "GPS location is required for office attendance")
LocationTooFar   == StageFailure("location_too_far", "You are too far away from office")

\* C14: the GPS check returns location_required exactly when the latitude or
\* the longitude is absent (0 degrees is a coordinate), location_too_far
\* exactly when both are given and the distance to the office is above 100 m,
\* and passes otherwise; a distance of exactly 100 m passes.
C14_GpsOutcomes ==
  (kpc = "done" /\ kcall.op = "gps") =>
    LET absent == kcall.latitude = None \/ kcall.longitude = None
        far == /\ ~absent
               /\ haversine_distance(kcall.latitude[1], kcall.longitude[1],
                                     OfficeLat, OfficeLon) > MaxDistance
    IN /\ (kres = LocationRequired) <=> absent
       /\ (kres = LocationTooFar) <=> far
       /\ kres.success <=> (~absent /\ ~far)


MarkCallDone == kpc = "done" /\ kcall.op = "mark"
LocationErrors == {"location_required", "location_too_far", "location_required_office"}
PreCheckErrors == {"employee_not_found", "employee_inactive", "already_marked"}
\* The failures of the verification checks up to and including the geofence
UpToGeofence ==
  {"photo_required", "profile_image_missing", "face_mismatch",
   "face_recognition_failed", "location_required", "location_too_far"}

FaceMismatchFailure == StageFailure("face_mismatch", "Face does not match profile image")
\* clamp01(1 - distance) x 100, in percent, for a distance in hundredths
MatchConfidence(face_distance) ==
  IF face_distance >= 100 THEN 0 ELSE IF face_distance <= 0 THEN 100
  ELSE 100 - face_distance

\* C16: with a reference image on file and the comparison made, the face
\* check fails with face_mismatch exactly when the match confidence is below
\* 60, and no submission whose reported confidence is below 60 passes.
C16_FaceThreshold ==
  (kpc = "done" /\ kcall.op = "face" /\ kcall.profile # None
     /\ kcall.early = "none") =>
     /\ (kres = FaceMismatchFailure) <=> MatchConfidence(kcall.face_distance) < 60
     /\ kres.success => kres.confidence >= 6000


\* C17: when an employee makes two submissions within five minutes, the
\* second, if it gets as far as the security validation, fails with
\* security_validation_failed.
C17_RapidRepeatBlocked ==
  (kpc = "done" /\ kcall.op = "repeat"
     /\ ReachesSecurity(kcall.employee_id, kcall.second)) =>
     kres.second = SecurityFailed


\* C18: the pre-checks return the shift the employee is assigned to, or no
\* shift (the default window) for an employee without one, so that two
\* employees on different shifts get their own time windows.
C18_OwnShift ==
  (kpc = "done" /\ kcall.op = "shift" /\ kcall.shift_table = ShiftNames) =>
     \A e \in EmployeeIds :
        kres.assigned_shift[e] = kcall.assigned[e]


\* The first check that fails, in the order employee exists, employee
\* active, not already marked today, photo present, reference image on file,
\* face match, coordinates present, within geofence, security validation;
\* "none" when every check passes
FirstFailingCheck(employee_id, sub) ==
  LET office == <<employee_id, Today>> \notin wfh
  IN CASE employee_id \notin EmployeeIds -> "employee_not_found"
       [] employees[employee_id] # "active" -> "employee_inactive"
       [] \E i \in 1..Len(store) :
             /\ store[i].employee_id = employee_id
             /\ store[i].date \div SlotsPerDay = Today -> "already_marked"
       [] sub.photo = None -> "photo_required"
       [] sub.use_face /\ sub.profile = None -> "profile_image_missing"
       [] sub.use_face /\ IsRaise(sub.cmp) -> "face_recognition_failed"
       [] sub.use_face /\ ~sub.cmp.match -> "face_mismatch"
       [] office /\ (sub.latitude = None \/ sub.longitude = None) -> "location_required"
       [] office /\ haversine_distance(sub.latitude[1], sub.longitude[1],
                                       OfficeLat, OfficeLon) > MaxDistance
            -> "location_too_far"
       [] sub.rapid_attempts -> "security_validation_failed"
       [] OTHER -> "none"

CheckFailures == PreCheckErrors \cup UpToGeofence \cup {"security_validation_failed"}

\* C19: the failure a submission returns is that of the first check that
\* fails in the fixed order of the checks, and a submission that fails no
\* check returns the failure of none.
C19_FirstFailureWins ==
  MarkCallDone =>
     LET first == FirstFailingCheck(kcall.employee_id, kcall.sub)
     IN IF first = "none"
          THEN kres.success \/ kres.error \notin CheckFailures
          ELSE ~kres.success /\ kres.error = first


\* The confidence below which a match is accepted with a warning only
\* (line 708, in percent)
SoftAcceptBound == 70

\* The status the record stage is to give: identity_unverified before
\* remote_unverified before late before present
RecordStatus(identity_requested, confidence, location_required, gps_passed, late) ==
  IF identity_requested /\ confidence < SoftAcceptBound THEN "identity_unverified"
  ELSE IF location_required /\ ~gps_passed THEN "remote_unverified"
  ELSE IF late THEN "late"
  ELSE "present"

\* C20: the status of a newly created record follows the precedence
\* identity_unverified (identity verification requested and its confidence
\* below the soft accept bound), then remote_unverified (location required
\* and the GPS check not passed), then late, then present; a submission that
\* did not request identity verification never gets identity_unverified.
\* The record stage is reached only after the GPS check passed or was waived.
C20_StatusPrecedence ==
  \A d \in Callers :
     (spc[d] = "done" /\ sres[d].success) =>
        LET a == sres[d].attendance
            requested == a.verification_method = "face_recognition"
        IN /\ a.status = RecordStatus(requested, a.face_confidence,
                                      a.work_mode = "office", TRUE, scall[d].late)
           /\ (~requested => a.status # "identity_unverified")


\* =================================================================
\* Properties of a record's life (checked under SpecLifecycle)
\* =================================================================
\* C21: in every state a record has requires_approval = true exactly when
\* its status is late, remote_unverified or identity_unverified; a record
\* created with requires_approval = false has status present; a record whose
\* requires_approval is false (never pending, or no longer pending) never
\* gets requires_approval = true.
C21_PendingIffPreApprovalStatus ==
  /\ [](\A i \in RowIds :
          store[i].requires_approval <=> store[i].status \in PreApprovalStatuses)
  /\ [][/\ \A i \in RowIds :
             ~store[i].requires_approval => ~store'[i].requires_approval
        /\ \A i \in 1..Len(store') :
             (i \notin RowIds /\ ~store'[i].requires_approval)
                => store'[i].status = "present"]_vars

\* C21 witness: the table holds a record created late and approved since, and
\* a record created on time
C21_Witness ==
  \E i, j \in RowIds :
     /\ store[i].status = "present_late" /\ ~store[i].requires_approval
     /\ store[i].approved_by # None
     /\ store[j].status = "present" /\ store[j].approved_by = None


\* =================================================================
\* Properties of the stages, continued (checked under SpecStages)
\* =================================================================
\* C22: every record persisted with a non-empty list of fraud indicators
\* (is_fraud_suspected = true) requires approval when it is created.
C22_FraudNeedsApproval ==
  \A d \in Callers :
     (spc[d] = "done" /\ scall[d].committed) =>
        \A i \in RowIds :
           (i > scall[d].seen /\ store[i].is_fraud_suspected)
              => store[i].requires_approval


\* =================================================================
\* Properties of the single checks, continued (checked under SpecChecks)
\* =================================================================
\* C23: _perform_validation never returns a failure: for every shift, time,
\* work mode and present or absent coordinates it returns success with a
\* timing classification.
C23_ValidationNeverFails ==
  (kpc = "done" /\ kcall.op = "validation") =>
     /\ kres.success
     /\ kres.validation_data.attendance_status \in {"present", "late"}


\* The window applied when no shift is assigned: 09:00 to 11:00, grace 15
DefaultWindow == [start |-> Clock(9, 0), end |-> Clock(11, 0), grace |-> 15]

\* C24: with no assigned shift a check-in after the default end and no later
\* than end + grace is accepted without approval, and only a check-in after
\* end + grace is classified late with approval required.
C24_DefaultWindowGrace ==
  (ValidationDone /\ kcall.assigned_shift = None
     /\ kcall.current_time > DefaultWindow.end) =>
     LET v == kres.validation_data
         in_grace == kcall.current_time <= DefaultWindow.end + DefaultWindow.grace
     IN IF in_grace
          THEN v.attendance_status = "present" /\ ~v.requires_approval
          ELSE v.attendance_status = "late" /\ v.requires_approval


CompareDone == kpc = "done" /\ kcall.op = "compare"

\* C25: a submitted image whose quality score is below 60 never yields a
\* match: whatever the face distance, compare_faces returns match = false
\* with confidence 0 and the quality failure message.
C25_LowQualityNeverMatches ==
  (CompareDone /\ kres.security_analysis.quality_check.quality_score < 60) =>
     /\ ~kres.match
     /\ kres.confidence = 0
     /\ kres.message = "Image quality too low"


\* C26: when the comparison runs, compare_faces forces a mismatch exactly
\* when there are two or more security warnings and the adjusted confidence
\* is below 85, the adjusted confidence being the raw confidence times 0.8 if
\* the liveness score is below 50 and times 0.9 if the quality score is below
\* 80; otherwise the match is that of the distance test alone.
C26_ForcedMismatch ==
  (CompareDone /\ kres.security_analysis.quality_check.acceptable
     /\ kcall.encoding_error = "none") =>
     LET q == kres.security_analysis.quality_check
         l == kres.security_analysis.liveness_check
         \* in hundredths of a percent
         adjusted == MatchConfidence(kcall.face_distance)
                       * (IF l.overall_score < 5000 THEN 8 ELSE 10)
                       * (IF q.quality_score < 80 THEN 9 ELSE 10)
         warnings == (IF l.is_likely_live THEN 0 ELSE 1) + l.warnings
         forced == warnings >= 2 /\ adjusted < 8500
     IN /\ kres.confidence = adjusted
        /\ kres.match <=> (kcall.face_distance <= FaceTolerance /\ ~forced)

\* C26 witness: a face within the tolerance whose raw confidence is 85 or
\* more, refused because of two warnings and a discounted confidence
C26_Witness ==
  /\ CompareDone /\ kcall.encoding_error = "none"
  /\ kres.security_analysis.quality_check.acceptable
  /\ MatchConfidence(kcall.face_distance) >= 85
  /\ kres.security_analysis.liveness_check.warnings >= 2
  /\ kres.confidence < 8500
  /\ ~kres.match


\* =================================================================
\* Properties of a record's life, continued (checked under SpecLifecycle)
\* =================================================================
\* C27: in every state the approval_status of a record is pending exactly
\* when its requires_approval is true, at creation and after every
\* successful approve_attendance.
C27_ApprovalStatusAgrees ==
  \A i \in RowIds :
     (store[i].approval_status = "pending") <=> store[i].requires_approval


\* =================================================================
\* Properties of a submission under WFH changes (checked under SpecWfh)
\* =================================================================
\* C28: within one submission the work mode is resolved once: the geofence
\* decision follows the work mode the pre-checks resolved, so a submission
\* for which the pre-checks found an approved WFH request is never refused
\* by the GPS check.
C28_WorkModeResolvedOnce ==
  \A p \in Callers :
     (MarkDone(p) /\ mcall[p].pre.success /\ mcall[p].pre.wfh_request # None) =>
        (mres[p].success \/ mres[p].error \notin LocationErrors)


\* C29 (checked under SpecStages): the date stored on a record falls on the
\* calendar day that the pre-checks of submissions made on the same local
\* day search: the day of the stored date is the local day of the
\* submission, for every time of day and every offset between local time and
\* UTC.
C29_StoredDateOnLocalDay ==
  \A d \in Callers :
     (spc[d] = "done" /\ sres[d].success) =>
        /\ sres[d].attendance.date >= DayStart(scall[d].returned_day)
        /\ sres[d].attendance.date < DayEnd(scall[d].returned_day)


\* =================================================================
\* Properties of the payroll (checked under SpecPayroll)
\* =================================================================
\* C30: once approve_payroll has moved a payroll row to status approved, no
\* later call of calculate_employee_payroll, bulk_calculate_payroll,
\* process_payroll_batch or approve_payroll for the same employee and month
\* returns it to calculated or changes its amounts; approve_payroll succeeds
\* only from status calculated.
C30_ApprovedPayrollIsFinal ==
  [][/\ \A e \in EmployeeIds :
          (payroll[e] # None /\ payroll[e].status = "approved") =>
             /\ payroll'[e] # None
             /\ payroll'[e].status = "approved"
             /\ payroll'[e].amounts = payroll[e].amounts
     /\ (pcall' # NoCall /\ pcall'.op = "approve" /\ pcall'.success) =>
          \A id \in pcall'.ids : payroll[id].status = "calculated"]_vars

====
